---- MODULE Spec2Model ----
(***************************************************************************)
(* A model of easy-rcon (src/src/index.js): the RCON packet codec          *)
(* (createPacket, getId, getType, getPayload) on byte sequences, and the   *)
(* session closure returned by RCON() with its three operations (connect,  *)
(* send, disconnect) and its four socket handlers (handleConnect,          *)
(* handleClose, handleError, handleData).                                  *)
(*                                                                         *)
(* Strings are sequences of character codes, buffers are sequences of      *)
(* bytes (0..255).  A promise is a record whose state moves once from      *)
(* "pending" to "fulfilled" or "rejected".  Each net.Socket is a record    *)
(* holding its status, the packets written to it, and the packets the      *)
(* server sent back on it.                                                 *)
(***************************************************************************)
EXTENDS Integers, Sequences, FiniteSets, TLC

VARIABLES
    client,             \* index of the current socket in transports, or null
    isAuthenticated,
    isAuthenticating,
    rconPassword,
    connectResolve,     \* index in connectOps of the promise it settles, or null
    connectReject,
    sendResolve,        \* index in sendOps of the promise it settles, or null
    sendReject,
    connectOps,         \* the promises returned by connect(), in call order
    sendOps,            \* the promises returned by send(), in call order
    disconnectOps,      \* the promises returned by disconnect(), in call order
    transports,         \* the sockets made by net.createConnection, in call order
    disconnected,       \* history: the last connect()/disconnect() to complete was a disconnect()
    codec               \* the codec exercised on its own: input, packet, decoded fields

vars == <<client, isAuthenticated, isAuthenticating, rconPassword,
          connectResolve, connectReject, sendResolve, sendReject,
          connectOps, sendOps, disconnectOps, transports, disconnected, codec>>

sessionVars == <<client, isAuthenticated, isAuthenticating, rconPassword,
                 connectResolve, connectReject, sendResolve, sendReject,
                 connectOps, sendOps, disconnectOps, transports, disconnected>>

----------------------------------------------------------------------------
(* Bounds of the model *)

\* Calls of connect, send and disconnect made on the session, all together.
MaxCalls == 4

\* Longest payload offered to the codec on its own.
MaxLen == 2

\* At most half of the calls are connect calls: each opens one more socket.
MaxSockets == MaxCalls \div 2

----------------------------------------------------------------------------
(* Program constants *)

null == 0

packetId == 1337

PACKET_TYPE_AUTH == 3
PACKET_TYPE_AUTH_RESPONSE == 2
PACKET_TYPE_EXEC_COMMAND == 2
PACKET_TYPE_RESPONSE_VALUE == 0

ERRNO_REFUSED == -4078
ERRNO_UNREACHABLE == -3008
ERRNO_TIMEDOUT == -4039

PacketTypes == {PACKET_TYPE_AUTH, PACKET_TYPE_AUTH_RESPONSE,
                PACKET_TYPE_EXEC_COMMAND, PACKET_TYPE_RESPONSE_VALUE}

----------------------------------------------------------------------------
(* Buffer primitives of node:buffer, as the codec uses them *)

Min(a, b) == IF a < b THEN a ELSE b
Max(a, b) == IF a > b THEN a ELSE b

\* Buffer.alloc(4, 0) followed by writeInt32LE(v): two's complement, low byte first.
\* (2^32 does not fit TLC's integers: the sign bit is handled apart.)
writeInt32LE(v) ==
    LET low == IF v < 0 THEN (v + 2147483647) + 1 ELSE v
    IN  << low % 256,
           (low \div 256) % 256,
           (low \div 65536) % 256,
           (low \div 16777216) + (IF v < 0 THEN 128 ELSE 0) >>

\* readInt32LE() at offset 0 of a buffer of at least four bytes.
readInt32LE(b) ==
    LET low == b[1] + 256 * b[2] + 65536 * b[3] + 16777216 * (b[4] % 128)
    IN  IF b[4] >= 128 THEN (low - 2147483647) - 1 ELSE low

\* buffer.subarray(start, end): 0-based, end exclusive, negative indices count
\* from the end, both clamped to the buffer.
subarray(buffer, start, end) ==
    LET n == Len(buffer)
        s == IF start < 0 THEN Max(n + start, 0) ELSE Min(start, n)
        e == IF end < 0 THEN Max(n + end, 0) ELSE Min(end, n)
    IN  IF e <= s THEN << >> ELSE SubSeq(buffer, s + 1, e)

\* Buffer.from(string, 'ascii'): one byte per code unit, its low eight bits.
BufferFromAscii(str) == [i \in 1..Len(str) |-> str[i] % 256]

\* buffer.toString('ascii'): one character per byte, its low seven bits.
toStringAscii(b) == [i \in 1..Len(b) |-> b[i] % 128]

----------------------------------------------------------------------------
(* The codec *)

\* getPayload taking one byte too many: the first trailing null.
getPayloadOffByOne(buffer) ==
    LET size == readInt32LE(subarray(buffer, 0, 4))
    IN  toStringAscii(subarray(buffer, 12, 12 + (size - 9)))

getPayload(buffer) ==
    LET size == readInt32LE(subarray(buffer, 0, 4))
    IN  toStringAscii(subarray(buffer, 12, 12 + (size - 10)))

\* getId reading the type field instead of the id field.
getIdWrongOffset(buffer) == readInt32LE(subarray(buffer, 8, 12))

getId(buffer) == readInt32LE(subarray(buffer, 4, 8))

getType(buffer) == readInt32LE(subarray(buffer, 8, 12))

\* createPacket measuring the size before the two trailing nulls are appended.
createPacketSizeWithoutNulls(type, payload) ==
    LET nullBuffer == << 0 >>
        idBuffer == writeInt32LE(packetId)
        typeBuffer == writeInt32LE(type)
        payloadBuffer == BufferFromAscii(payload)
        commandBuffer == idBuffer \o typeBuffer \o payloadBuffer
        sizeBuffer == writeInt32LE(Len(commandBuffer))
    IN  sizeBuffer \o commandBuffer \o nullBuffer \o nullBuffer

createPacket(type, payload) ==
    LET nullBuffer == << 0 >>
        idBuffer == writeInt32LE(packetId)
        typeBuffer == writeInt32LE(type)
        payloadBuffer == BufferFromAscii(payload)
        commandBuffer == idBuffer \o typeBuffer \o payloadBuffer \o nullBuffer \o nullBuffer
        sizeBuffer == writeInt32LE(Len(commandBuffer))
    IN  sizeBuffer \o commandBuffer

----------------------------------------------------------------------------
(* Inputs and the server's choices *)

\* "pw", "x"
Passwords == { << 112, 119 >>, << 120 >> }

\* "info"
Commands == { << 105, 110, 102, 111 >> }

\* What the server answers a packet with: the echoed id and "OK", or the id of
\* a refusal (-1) and "no".
Replies == { [id |-> packetId, payload |-> << 79, 75 >>],
             [id |-> -1, payload |-> << 110, 111 >>] }

\* The three errno values handleError maps, and one it does not.
Errnos == { ERRNO_REFUSED, ERRNO_UNREACHABLE, ERRNO_TIMEDOUT, -4077 }

\* Code units offered to the codec: NUL, "A", DEL (ASCII) and e-acute (not ASCII).
CodecChars == { 0, 65, 127, 233 }

IsAscii(str) == \A i \in 1..Len(str) : str[i] \in 0..127

BoundedSeq(S, n) == UNION { [1..k -> S] : k \in 0..n }

----------------------------------------------------------------------------
(* Promises: new Promise((resolve, reject) => ...) *)

NewPromise == [state |-> "pending", value |-> << >>, reason |-> ""]

\* A promise that lets a later resolve or reject overwrite its outcome.
SettleAgain(p, state, value, reason) ==
    [p EXCEPT !.state = state, !.value = value, !.reason = reason]

\* resolve(value) or reject(reason) on one promise: only a pending promise settles.
Settle(p, state, value, reason) ==
    IF p.state = "pending"
    THEN [p EXCEPT !.state = state, !.value = value, !.reason = reason]
    ELSE p

\* handle?.(value), where handle is the resolve function of ops[handle] or null
resolve(ops, handle, value) ==
    IF handle = null THEN ops
    ELSE [ops EXCEPT ![handle] = Settle(@, "fulfilled", value, "")]

reject(ops, handle, reason) ==
    IF handle = null THEN ops
    ELSE [ops EXCEPT ![handle] = Settle(@, "rejected", << >>, reason)]

\* History: the socket whose event settled a connect promise.
stamp(new, old, t) ==
    [i \in DOMAIN new |->
        IF new[i].state # old[i].state THEN [new[i] EXCEPT !.by = t] ELSE new[i]]

----------------------------------------------------------------------------
(* Sockets: net.createConnection, write, destroy, and the remote server *)

\* wire: the packets written and not yet answered by the server; answered: how
\* many the server has answered; inbound: the server's packet not yet delivered
\* as a 'data' event.
NewSocket == [status |-> "connecting", wire |-> << >>, answered |-> 0, inbound |-> << >>]

\* A socket that is destroyed, or closed, drops what it had buffered.
drop(socket, status) == [socket EXCEPT !.status = status, !.wire = << >>, !.inbound = << >>]

\* client.write(packet): writes made while connecting are flushed in order once
\* connected; a write to a socket that was destroyed or closed goes nowhere.
write(ts, c, packet) ==
    IF ts[c].status \in {"connecting", "open"}
    THEN [ts EXCEPT ![c].wire = Append(@, packet)]
    ELSE ts

\* client.destroy()
destroy(ts, c) ==
    IF ts[c].status \in {"connecting", "open"}
    THEN [ts EXCEPT ![c] = drop(@, "destroyed")]
    ELSE ts

\* A packet as the server lays it out (the RCON wire format).
rconPacket(id, type, payload) ==
    writeInt32LE(10 + Len(payload)) \o writeInt32LE(id) \o writeInt32LE(type)
        \o payload \o << 0, 0 >>

\* History: the payload the server answered packet number packetNo of socket t
\* with, kept on the send() call that wrote that packet.
answeredWith(ops, t, packetNo, payload) ==
    [i \in DOMAIN ops |->
        IF ops[i].transport = t /\ ops[i].packetNo = packetNo
        THEN [ops[i] EXCEPT !.answered = TRUE, !.reply = payload]
        ELSE ops[i]]

\* The server answers the packets it received, in order, each with one packet,
\* the next one once the previous answer has been delivered.
serverReply(t, id, payload) ==
    /\ t \in DOMAIN transports
    /\ transports[t].status = "open"
    /\ transports[t].wire # << >>
    /\ transports[t].inbound = << >>
    /\ LET request == Head(transports[t].wire)
           type == IF getType(request) = PACKET_TYPE_AUTH
                   THEN PACKET_TYPE_AUTH_RESPONSE
                   ELSE PACKET_TYPE_RESPONSE_VALUE
       IN  transports' = [transports EXCEPT
                             ![t].wire = Tail(@),
                             ![t].answered = @ + 1,
                             ![t].inbound = << rconPacket(id, type, payload) >>]
    /\ sendOps' = answeredWith(sendOps, t, transports[t].answered + 1, payload)
    /\ UNCHANGED <<client, isAuthenticated, isAuthenticating, rconPassword,
                   connectResolve, connectReject, sendResolve, sendReject,
                   connectOps, disconnectOps, disconnected, codec>>

----------------------------------------------------------------------------
(* The session: RCON() *)

CodecIdle == [pc |-> "idle", type |-> 0, payload |-> << >>, packet |-> << >>,
              decoded |-> [id |-> 0, type |-> 0, payload |-> << >>]]

SessionInit ==
    /\ client = null
    /\ isAuthenticated = FALSE
    /\ isAuthenticating = FALSE
    /\ rconPassword = null
    /\ connectResolve = null
    /\ connectReject = null
    /\ sendResolve = null
    /\ sendReject = null
    /\ connectOps = << >>
    /\ sendOps = << >>
    /\ disconnectOps = << >>
    /\ transports = << >>
    /\ disconnected = FALSE

Init == SessionInit /\ codec = CodecIdle

\* The calls made so far on the session's three operations.
Calls == Len(connectOps) + Len(sendOps) + Len(disconnectOps)

\* handleConnect without its isAuthenticated guard.
handleConnectNoGuard(ts) ==
    [isAuthenticating |-> TRUE,
     transports |-> write(ts, client, createPacket(PACKET_TYPE_AUTH, rconPassword))]

\* handleConnect(): the authenticating flag and the sockets (ts: the sockets as
\* the 'connect' event finds them) once it has run.
handleConnect(ts) ==
    IF isAuthenticated
    THEN [isAuthenticating |-> isAuthenticating, transports |-> ts]
    ELSE [isAuthenticating |-> TRUE,
          transports |-> write(ts, client, createPacket(PACKET_TYPE_AUTH, rconPassword))]

\* handleClose rejecting on a close without an error instead of one with.
handleCloseInverted(hasError) ==
    IF hasError
    THEN sendOps
    ELSE reject(sendOps, sendReject, "Unable to connect to remote host")

\* handleClose(hasError): the send promises once it has run.
handleClose(hasError) ==
    IF hasError
    THEN reject(sendOps, sendReject, "Unable to connect to remote host")
    ELSE sendOps

\* handleError with a default branch that rejects on every other errno.
handleErrorDefaultReject(errno) ==
    IF errno = ERRNO_REFUSED
    THEN reject(connectOps, connectReject, "Remote host refused connection")
    ELSE IF errno = ERRNO_TIMEDOUT
    THEN reject(connectOps, connectReject, "Connection to remote host timed out")
    ELSE reject(connectOps, connectReject, "Unable to connect to remote host")

\* handleError without its last branch, the one for a timed-out connection.
handleErrorNoTimeout(errno) ==
    IF errno = ERRNO_REFUSED
    THEN reject(connectOps, connectReject, "Remote host refused connection")
    ELSE IF errno = ERRNO_UNREACHABLE
    THEN reject(connectOps, connectReject, "Unable to connect to remote host")
    ELSE connectOps

\* handleError(error): the connect promises once it has run, by error.errno.
handleError(errno) ==
    IF errno = ERRNO_REFUSED
    THEN reject(connectOps, connectReject, "Remote host refused connection")
    ELSE IF errno = ERRNO_UNREACHABLE
    THEN reject(connectOps, connectReject, "Unable to connect to remote host")
    ELSE IF errno = ERRNO_TIMEDOUT
    THEN reject(connectOps, connectReject, "Connection to remote host timed out")
    ELSE connectOps

\* handleAuthResponse leaving isAuthenticating set when the id matches.
handleAuthResponseStillAuthenticating(buffer) ==
    IF getId(buffer) # packetId
    THEN [isAuthenticating |-> FALSE,
          isAuthenticated |-> FALSE,
          connectOps |-> reject(connectOps, connectReject, "RCON authentication failed")]
    ELSE [isAuthenticating |-> isAuthenticating,
          isAuthenticated |-> TRUE,
          connectOps |-> resolve(connectOps, connectResolve, << >>)]

\* handleAuthResponse resolving the connect promise without setting isAuthenticated.
handleAuthResponseNoFlag(buffer) ==
    IF getId(buffer) # packetId
    THEN [isAuthenticating |-> FALSE,
          isAuthenticated |-> FALSE,
          connectOps |-> reject(connectOps, connectReject, "RCON authentication failed")]
    ELSE [isAuthenticating |-> FALSE,
          isAuthenticated |-> isAuthenticated,
          connectOps |-> resolve(connectOps, connectResolve, << >>)]

\* handleAuthResponse returning on a mismatched id without rejecting.
handleAuthResponseSilent(buffer) ==
    IF getId(buffer) # packetId
    THEN [isAuthenticating |-> FALSE,
          isAuthenticated |-> FALSE,
          connectOps |-> connectOps]
    ELSE [isAuthenticating |-> FALSE,
          isAuthenticated |-> TRUE,
          connectOps |-> resolve(connectOps, connectResolve, << >>)]

\* handleAuthResponse(buffer): the flags and the connect promises once it has run.
handleAuthResponse(buffer) ==
    IF getId(buffer) # packetId
    THEN [isAuthenticating |-> FALSE,
          isAuthenticated |-> FALSE,
          connectOps |-> reject(connectOps, connectReject, "RCON authentication failed")]
    ELSE [isAuthenticating |-> FALSE,
          isAuthenticated |-> TRUE,
          connectOps |-> resolve(connectOps, connectResolve, << >>)]

\* handleDataResponse resolving the send promise with the packet's type field.
handleDataResponseWrongField(buffer) ==
    resolve(sendOps, sendResolve, << getType(buffer) >>)

\* handleDataResponse(buffer): the send promises once it has run.
handleDataResponse(buffer) == resolve(sendOps, sendResolve, getPayload(buffer))

\* handleData running handleDataResponse only when not authenticating.
handleDataEitherOr(buffer) ==
    IF isAuthenticating
    THEN LET auth == handleAuthResponse(buffer)
         IN  [isAuthenticating |-> auth.isAuthenticating,
              isAuthenticated |-> auth.isAuthenticated,
              connectOps |-> auth.connectOps,
              sendOps |-> sendOps]
    ELSE [isAuthenticating |-> isAuthenticating,
          isAuthenticated |-> isAuthenticated,
          connectOps |-> connectOps,
          sendOps |-> handleDataResponse(buffer)]

\* handleData(buffer): handleAuthResponse when authenticating, and then
\* handleDataResponse in every case.
handleData(buffer) ==
    LET auth == IF isAuthenticating
                THEN handleAuthResponse(buffer)
                ELSE [isAuthenticating |-> isAuthenticating,
                      isAuthenticated |-> isAuthenticated,
                      connectOps |-> connectOps]
    IN  [isAuthenticating |-> auth.isAuthenticating,
         isAuthenticated |-> auth.isAuthenticated,
         connectOps |-> auth.connectOps,
         sendOps |-> handleDataResponse(buffer)]

\* The 'connect' event of socket t.
socketConnect(t) ==
    /\ t \in DOMAIN transports
    /\ transports[t].status = "connecting"
    /\ LET after == handleConnect([transports EXCEPT ![t].status = "open"])
       IN  /\ isAuthenticating' = after.isAuthenticating
           /\ transports' = after.transports
    /\ UNCHANGED <<client, isAuthenticated, rconPassword, connectResolve, connectReject,
                   sendResolve, sendReject, connectOps, sendOps, disconnectOps,
                   disconnected, codec>>

\* The 'close' event of socket t with hasError false: the socket was destroyed
\* by disconnect(), or the server closed the connection.
socketClose(t) ==
    /\ t \in DOMAIN transports
    /\ transports[t].status \in {"open", "destroyed"}
    /\ sendOps' = handleClose(FALSE)
    /\ transports' = [transports EXCEPT ![t] = drop(@, "closed")]
    /\ UNCHANGED <<client, isAuthenticated, isAuthenticating, rconPassword,
                   connectResolve, connectReject, sendResolve, sendReject,
                   connectOps, disconnectOps, disconnected, codec>>

\* The 'error' event of socket t, and the 'close' event with hasError true that
\* the socket emits right after it, with nothing running in between.
socketError(t, errno) ==
    /\ t \in DOMAIN transports
    /\ transports[t].status \in {"connecting", "open"}
    /\ connectOps' = stamp(handleError(errno), connectOps, t)
    /\ sendOps' = handleClose(TRUE)
    /\ transports' = [transports EXCEPT ![t] = drop(@, "closed")]
    /\ UNCHANGED <<client, isAuthenticated, isAuthenticating, rconPassword,
                   connectResolve, connectReject, sendResolve, sendReject,
                   disconnectOps, disconnected, codec>>

\* The 'data' event of socket t, carrying the packet the server sent.
socketData(t) ==
    /\ t \in DOMAIN transports
    /\ transports[t].status = "open"
    /\ transports[t].inbound # << >>
    /\ LET after == handleData(Head(transports[t].inbound))
       IN  /\ isAuthenticating' = after.isAuthenticating
           /\ isAuthenticated' = after.isAuthenticated
           /\ connectOps' = stamp(after.connectOps, connectOps, t)
           /\ sendOps' = after.sendOps
    /\ transports' = [transports EXCEPT ![t].inbound = Tail(@)]
    /\ UNCHANGED <<client, rconPassword, connectResolve, connectReject,
                   sendResolve, sendReject, disconnectOps, disconnected, codec>>

connect(password) ==
    /\ Calls < MaxCalls
    /\ Len(transports) < MaxSockets
    /\ LET n == Len(connectOps) + 1
           socket == Len(transports) + 1
       IN  /\ connectOps' = Append(connectOps,
                               [state |-> "pending", value |-> << >>, reason |-> "",
                                transport |-> socket, by |-> null])
           /\ connectReject' = n
           /\ connectResolve' = n
           /\ transports' = Append(transports, NewSocket)
           /\ client' = socket
    /\ rconPassword' = password
    /\ disconnected' = FALSE
    /\ UNCHANGED <<isAuthenticated, isAuthenticating, sendResolve, sendReject,
                   sendOps, disconnectOps, codec>>

\* client.destroy() on a null client throws inside the promise executor, which
\* rejects the promise and skips the rest of the executor.
disconnect ==
    /\ Calls < MaxCalls
    /\ IF client = null
       THEN /\ disconnectOps' = Append(disconnectOps,
                                   Settle(NewPromise, "rejected", << >>, "TypeError"))
            /\ UNCHANGED <<transports, isAuthenticated, isAuthenticating, disconnected>>
       ELSE /\ transports' = destroy(transports, client)
            /\ isAuthenticated' = FALSE
            /\ isAuthenticating' = FALSE
            /\ disconnectOps' = Append(disconnectOps,
                                   Settle(NewPromise, "fulfilled", << >>, ""))
            /\ disconnected' = TRUE
    /\ UNCHANGED <<client, rconPassword, connectResolve, connectReject,
                   sendResolve, sendReject, connectOps, sendOps, codec>>

\* The executor of send(command) without its isAuthenticated check.
sendExecutorNoCheck(command) ==
    LET written == client # null /\ transports[client].status \in {"connecting", "open"}
        p0 == [state |-> "pending", value |-> << >>, reason |-> "",
               authed |-> isAuthenticated,
               prevSettled |-> \A i \in DOMAIN sendOps : sendOps[i].state # "pending",
               transport |-> IF written THEN client ELSE null,
               packetNo |-> IF written
                            THEN transports[client].answered
                                 + Len(transports[client].wire) + 1
                            ELSE 0,
               answered |-> FALSE,
               reply |-> << >>]
    IN  IF client = null THEN Settle(p0, "rejected", << >>, "TypeError") ELSE p0

\* The promise of a send(command) call once its executor has run: rejected at
\* once when not authenticated; client.write on a null client throws, which
\* rejects the promise if it is still pending.  The other fields are history:
\* the flag and the earlier sends as the call found them, and where its packet
\* went.
sendExecutor(command) ==
    LET written == client # null /\ transports[client].status \in {"connecting", "open"}
        p0 == [state |-> "pending", value |-> << >>, reason |-> "",
               authed |-> isAuthenticated,
               prevSettled |-> \A i \in DOMAIN sendOps : sendOps[i].state # "pending",
               transport |-> IF written THEN client ELSE null,
               packetNo |-> IF written
                            THEN transports[client].answered
                                 + Len(transports[client].wire) + 1
                            ELSE 0,
               answered |-> FALSE,
               reply |-> << >>]
        p1 == IF ~isAuthenticated
              THEN Settle(p0, "rejected", << >>, "RCON client not authenticated")
              ELSE p0
    IN  IF client = null THEN Settle(p1, "rejected", << >>, "TypeError") ELSE p1

\* send(command) returning after the rejection, before the write.
sendReturnsEarly(command) ==
    /\ Calls < MaxCalls
    /\ sendReject' = Len(sendOps) + 1
    /\ sendResolve' = Len(sendOps) + 1
    /\ sendOps' = Append(sendOps, sendExecutor(command))
    /\ transports' = IF client = null \/ ~isAuthenticated THEN transports
                     ELSE write(transports, client,
                                createPacket(PACKET_TYPE_EXEC_COMMAND, command))
    /\ UNCHANGED <<client, isAuthenticated, isAuthenticating, rconPassword,
                   connectResolve, connectReject, connectOps, disconnectOps,
                   disconnected, codec>>

\* send(command) keeping the handles of an earlier send that is still pending.
sendKeepsHandles(command) ==
    /\ Calls < MaxCalls
    /\ LET kept == sendReject # null /\ sendOps[sendReject].state = "pending"
       IN  /\ sendReject' = IF kept THEN sendReject ELSE Len(sendOps) + 1
           /\ sendResolve' = IF kept THEN sendResolve ELSE Len(sendOps) + 1
    /\ sendOps' = Append(sendOps, sendExecutor(command))
    /\ transports' = IF client = null THEN transports
                     ELSE write(transports, client,
                                createPacket(PACKET_TYPE_EXEC_COMMAND, command))
    /\ UNCHANGED <<client, isAuthenticated, isAuthenticating, rconPassword,
                   connectResolve, connectReject, connectOps, disconnectOps,
                   disconnected, codec>>

send(command) ==
    /\ Calls < MaxCalls
    /\ sendReject' = Len(sendOps) + 1
    /\ sendResolve' = Len(sendOps) + 1
    /\ sendOps' = Append(sendOps, sendExecutor(command))
    /\ transports' = IF client = null THEN transports
                     ELSE write(transports, client,
                                createPacket(PACKET_TYPE_EXEC_COMMAND, command))
    /\ UNCHANGED <<client, isAuthenticated, isAuthenticating, rconPassword,
                   connectResolve, connectReject, connectOps, disconnectOps,
                   disconnected, codec>>

Sockets == 1..MaxSockets

Next ==
    \/ \E password \in Passwords : connect(password)
    \/ \E command \in Commands : send(command)
    \/ disconnect
    \/ \E t \in Sockets : socketConnect(t)
    \/ \E t \in Sockets : socketClose(t)
    \/ \E t \in Sockets, errno \in Errnos : socketError(t, errno)
    \/ \E t \in Sockets : socketData(t)
    \/ \E t \in Sockets, reply \in Replies : serverReply(t, reply.id, reply.payload)

Spec == Init /\ [][Next]_vars

\* Node's event loop delivers a 'data' event that is waiting on an open socket.
FairSpec == Spec /\ WF_vars(\E t \in Sockets : socketData(t))

----------------------------------------------------------------------------
(* The codec on its own: encode an input, then decode the packet *)

CodecInit ==
    /\ SessionInit
    /\ \E type \in PacketTypes, payload \in BoundedSeq(CodecChars, MaxLen) :
          codec = [CodecIdle EXCEPT !.pc = "input", !.type = type, !.payload = payload]

encode ==
    /\ codec.pc = "input"
    /\ codec' = [codec EXCEPT !.pc = "encoded",
                              !.packet = createPacket(codec.type, codec.payload)]
    /\ UNCHANGED sessionVars

decode ==
    /\ codec.pc = "encoded"
    /\ codec' = [codec EXCEPT !.pc = "decoded",
                              !.decoded = [id |-> getId(codec.packet),
                                           type |-> getType(codec.packet),
                                           payload |-> getPayload(codec.packet)]]
    /\ UNCHANGED sessionVars

CodecNext == encode \/ decode

CodecSpec == CodecInit /\ [][CodecNext]_vars

----------------------------------------------------------------------------
(* The claims *)

\* The session has seen one connect() call and no other call.
SingleConnect == Len(connectOps) = 1 /\ sendOps = << >> /\ disconnectOps = << >>

\* After that single connect(), the socket is connected and the server's answer
\* to the AUTH packet, carrying the fixed id, waits to be delivered.
AuthAnswered ==
    /\ SingleConnect
    /\ transports[1].status = "open"
    /\ transports[1].answered = 1
    /\ transports[1].inbound # << >>
    /\ \E reply \in Replies :
          /\ reply.id = packetId
          /\ Head(transports[1].inbound)
               = rconPacket(reply.id, PACKET_TYPE_AUTH_RESPONSE, reply.payload)

\* The connect promise is fulfilled, or the socket is no longer open, or the
\* session has seen another call.
ConnectFulfilledOrDisturbed ==
    IF SingleConnect /\ transports[1].status = "open"
    THEN connectOps[1].state = "fulfilled"
    ELSE TRUE

\* C1: from a fresh session, after a single connect(), once the socket has
\* connected and the server has answered the AUTH packet with a packet whose id
\* is the fixed id, the connect promise is eventually fulfilled, under fair
\* delivery of 'data' events, unless the socket fails or closes first or
\* another call is made on the session.
C1_ConnectFulfills == AuthAnswered ~> ConnectFulfilledOrDisturbed

C1_Witness ==
    /\ SingleConnect
    /\ connectOps[1].state = "fulfilled"
    /\ connectOps[1].by = 1
    /\ transports[1].status = "open"

\* C2: in every step in which a connect promise becomes fulfilled, the step
\* ends with isAuthenticated true and isAuthenticating false.
C2_FulfilledWhenReady ==
    [][\A i \in DOMAIN connectOps :
          (connectOps[i].state # "fulfilled" /\ connectOps'[i].state = "fulfilled")
              => (isAuthenticated' /\ ~isAuthenticating')]_vars

C2_Witness ==
    \E i \in DOMAIN connectOps :
        connectOps[i].state = "fulfilled" /\ isAuthenticated /\ ~isAuthenticating

\* C3: a 'data' event that arrives while authenticating, with a packet whose id
\* is not the fixed id, leaves isAuthenticated and isAuthenticating false and
\* rejects the session's connect promise, if still pending, with
\* "RCON authentication failed".
C3_AuthFailureRejects ==
    [][\A t \in DOMAIN transports :
          (/\ socketData(t)
           /\ isAuthenticating
           /\ getId(Head(transports[t].inbound)) # packetId)
          => (/\ ~isAuthenticated'
              /\ ~isAuthenticating'
              /\ connectOps[connectReject].state = "pending"
                   => (/\ connectOps'[connectReject].state = "rejected"
                       /\ connectOps'[connectReject].reason
                            = "RCON authentication failed"))]_vars

C3_Witness ==
    \E i \in DOMAIN connectOps :
        /\ connectOps[i].state = "rejected"
        /\ connectOps[i].reason = "RCON authentication failed"
        /\ ~isAuthenticated
        /\ ~isAuthenticating

\* C4: every send() called while isAuthenticated is false is rejected with
\* "RCON client not authenticated", and is never fulfilled later.
C4_UnauthenticatedSendRejected ==
    \A i \in DOMAIN sendOps :
        ~sendOps[i].authed
            => (/\ sendOps[i].state = "rejected"
                /\ sendOps[i].reason = "RCON client not authenticated")

\* A send rejected after a disconnect() that followed a successful connect(),
\* whose socket the disconnect destroyed.
C4_Witness ==
    /\ disconnected
    /\ \E i \in DOMAIN connectOps : connectOps[i].state = "fulfilled"
    /\ \E i \in DOMAIN sendOps :
          /\ ~sendOps[i].authed
          /\ sendOps[i].state = "rejected"
          /\ sendOps[i].reason = "RCON client not authenticated"
          /\ sendOps[i].transport = null

\* One connect() that succeeded, no disconnect(), and every send() called while
\* authenticated and after the sends before it had settled.
Orderly ==
    /\ Len(connectOps) = 1
    /\ disconnectOps = << >>
    /\ \A i \in DOMAIN sendOps : sendOps[i].authed /\ sendOps[i].prevSettled

\* In an orderly session the server has answered the packet of the latest
\* send, the only one that can still be pending there.
SendAnswered ==
    IF Orderly /\ sendOps # << >> THEN sendOps[Len(sendOps)].answered ELSE FALSE

\* The latest send is fulfilled, or the socket is no longer open, or the session
\* is no longer orderly.
SendFulfilledOrDisturbed ==
    IF Orderly /\ sendOps # << >> /\ transports[1].status = "open"
    THEN sendOps[Len(sendOps)].state = "fulfilled"
    ELSE TRUE

\* C5: after a successful connect(), with sends called one at a time, a send
\* that is fulfilled carries the payload of the server's answer to its own
\* packet; a settled send never changes again; and a send whose packet the
\* server has answered is eventually fulfilled, under fair delivery of 'data'
\* events, unless the socket fails or closes first or the calls stop being
\* one at a time.
C5_SendGetsItsReply ==
    /\ [](Orderly => \A i \in DOMAIN sendOps :
              sendOps[i].state = "fulfilled"
                  => (sendOps[i].answered /\ sendOps[i].value = sendOps[i].reply))
    /\ [][\A i \in DOMAIN sendOps :
              sendOps[i].state # "pending"
                  => (/\ sendOps'[i].state = sendOps[i].state
                      /\ sendOps'[i].value = sendOps[i].value
                      /\ sendOps'[i].reason = sendOps[i].reason)]_vars
    /\ SendAnswered ~> SendFulfilledOrDisturbed

\* Two sends, one after the other, fulfilled with two different answers.
C5_Witness ==
    /\ Orderly
    /\ Len(sendOps) = 2
    /\ \A i \in DOMAIN sendOps :
          /\ sendOps[i].state = "fulfilled"
          /\ sendOps[i].answered
          /\ sendOps[i].value = sendOps[i].reply
    /\ sendOps[1].value # sendOps[2].value

\* C6: every promise returned by disconnect() is fulfilled.
C6_DisconnectAlwaysFulfills ==
    \A i \in DOMAIN disconnectOps : disconnectOps[i].state = "fulfilled"

\* C7: from a disconnect() that destroyed the session's socket until the next
\* connect() call, isAuthenticated and isAuthenticating are both false.
C7_IdleAfterDisconnect ==
    disconnected => (~isAuthenticated /\ ~isAuthenticating)

\* C8: for every packet type and every ASCII payload, the packet made by
\* createPacket decodes to the fixed id, that type and that payload.
C8_RoundTrip ==
    (codec.pc = "decoded" /\ IsAscii(codec.payload))
        => codec.decoded = [id |-> packetId, type |-> codec.type,
                            payload |-> codec.payload]

C8_Witness ==
    /\ codec.pc = "decoded"
    /\ codec.type = PACKET_TYPE_AUTH
    /\ codec.payload = << 65, 127 >>
    /\ codec.decoded.payload = << 65, 127 >>

\* C9: in every packet made by createPacket, the first four bytes hold, as a
\* little-endian int32, the packet length minus four, which is ten plus the
\* payload length, and the last two bytes are null.
C9_SizeField ==
    codec.pc \in {"encoded", "decoded"}
        => LET packet == codec.packet
               n == Len(packet)
           IN  /\ readInt32LE(SubSeq(packet, 1, 4)) = n - 4
               /\ n - 4 = 10 + Len(codec.payload)
               /\ packet[n - 1] = 0
               /\ packet[n] = 0

C9_Witness ==
    /\ codec.pc = "encoded"
    /\ Len(codec.payload) = 2
    /\ Len(codec.packet) = 16
    /\ SubSeq(codec.packet, 1, 4) = << 12, 0, 0, 0 >>

MappedMessage(errno) ==
    CASE errno = ERRNO_REFUSED -> "Remote host refused connection"
      [] errno = ERRNO_UNREACHABLE -> "Unable to connect to remote host"
      [] errno = ERRNO_TIMEDOUT -> "Connection to remote host timed out"

\* C11: an 'error' event of a mapped class (refused, unreachable, timed out),
\* fired while the session's connect promise is pending, rejects that promise
\* with the message of the class and leaves isAuthenticated and
\* isAuthenticating as they were.
C11_MappedErrorRejects ==
    [][\A t \in DOMAIN transports :
          \A errno \in {ERRNO_REFUSED, ERRNO_UNREACHABLE, ERRNO_TIMEDOUT} :
              (socketError(t, errno) /\ connectOps[connectReject].state = "pending")
                  => (/\ connectOps'[connectReject].state = "rejected"
                      /\ connectOps'[connectReject].reason = MappedMessage(errno)
                      /\ isAuthenticated' = isAuthenticated
                      /\ isAuthenticating' = isAuthenticating)]_vars

\* Two connect promises rejected for two different classes of error, the
\* session unauthenticated.
C11_Witness ==
    /\ Len(connectOps) = 2
    /\ connectOps[1].state = "rejected"
    /\ connectOps[1].reason = "Remote host refused connection"
    /\ connectOps[2].state = "rejected"
    /\ connectOps[2].reason = "Connection to remote host timed out"
    /\ ~isAuthenticated

\* C12: a 'close' event with hasError true, fired on any socket while the
\* session's send promise is pending, rejects that promise with "Unable to
\* connect to remote host": the step never leaves it pending.
C12_CloseWithErrorRejectsSend ==
    [][\A t \in DOMAIN transports :
          \A errno \in Errnos :
              (/\ socketError(t, errno)
               /\ sendReject # null
               /\ sendOps[sendReject].state = "pending")
                  => (/\ sendOps'[sendReject].state = "rejected"
                      /\ sendOps'[sendReject].reason = "Unable to connect to remote host")]_vars

\* A send made while authenticated, hence left pending by its executor, and
\* rejected by a close with an error.
C12_Witness ==
    \E i \in DOMAIN sendOps :
        /\ sendOps[i].authed
        /\ sendOps[i].state = "rejected"
        /\ sendOps[i].reason = "Unable to connect to remote host"

\* C13: a send promise that is not the most recently issued one never changes
\* state: once a later send() has been called, an earlier send that was still
\* pending stays pending through every step (data, error and close,
\* disconnect, further calls), and only the latest send is ever fulfilled or
\* rejected.
C13_OverwrittenSendNeverSettles ==
    [][\A i \in DOMAIN sendOps :
          /\ (i < Len(sendOps) /\ sendOps[i].state = "pending")
                 => sendOps'[i].state = "pending"
          /\ sendOps'[i].state # sendOps[i].state => i = Len(sendOps)]_vars

\* Two sends, the second issued while the first was pending; the server has
\* answered both packets, the second send is fulfilled and the first is still
\* pending.
C13_Witness ==
    /\ Len(sendOps) = 2
    /\ ~sendOps[2].prevSettled
    /\ sendOps[1].state = "pending"
    /\ sendOps[1].answered
    /\ sendOps[2].state = "fulfilled"

\* C14: every 'data' event, on any socket and of either packet type, fired
\* while the session's send promise is pending fulfils that promise with the
\* payload of the packet delivered, whether or not the packet answers that
\* send and whether or not the event is also taken as the authentication
\* response.
C14_NextDataFulfilsSend ==
    [][\A t \in DOMAIN transports :
          (/\ socketData(t)
           /\ sendResolve # null
           /\ sendOps[sendResolve].state = "pending")
              => \E reply \in Replies :
                 \E type \in {PACKET_TYPE_AUTH_RESPONSE, PACKET_TYPE_RESPONSE_VALUE} :
                     /\ Head(transports[t].inbound)
                            = rconPacket(reply.id, type, reply.payload)
                     /\ sendOps'[sendResolve].state = "fulfilled"
                     /\ sendOps'[sendResolve].value = reply.payload]_vars

\* connect, send, disconnect, connect: the send was left pending, its own
\* packet was never answered, and the authentication response of the second
\* socket has fulfilled both the second connect and the send.
C14_Witness ==
    /\ Len(sendOps) = 1
    /\ Len(disconnectOps) = 1
    /\ Len(connectOps) = 2
    /\ sendOps[1].authed
    /\ ~sendOps[1].answered
    /\ sendOps[1].state = "fulfilled"
    /\ sendOps[1].value = << 79, 75 >>
    /\ connectOps[2].state = "fulfilled"
    /\ connectOps[2].by = 2

\* C15 as stated: every send(command) made while not authenticated puts the
\* EXEC_COMMAND packet of that command on the wire of a socket.
C15_UnauthenticatedSendTransmits ==
    [][\A command \in Commands :
          (send(command) /\ ~isAuthenticated)
              => \E t \in DOMAIN transports :
                     transports'[t].wire
                         = Append(transports[t].wire,
                                  createPacket(PACKET_TYPE_EXEC_COMMAND, command))]_vars

\* C15, amended: a send(command) made while not authenticated is rejected and
\* still puts the EXEC_COMMAND packet of that command on the wire of the
\* session's socket when that socket is connecting or open; when the session
\* has no socket, or its socket is destroyed or closed, nothing is transmitted.
C15_UnauthenticatedSendTransmitsIfLive ==
    [][\A command \in Commands :
          (send(command) /\ ~isAuthenticated)
              => /\ sendOps'[Len(sendOps')].state = "rejected"
                 /\ IF client # null /\ transports[client].status \in {"connecting", "open"}
                    THEN transports'
                             = [transports EXCEPT ![client].wire =
                                   Append(@, createPacket(PACKET_TYPE_EXEC_COMMAND,
                                                          command))]
                    ELSE transports' = transports]_vars

\* A send rejected for want of authentication whose packet the server has
\* received and answered while the connect promise is still pending.
C15_Witness ==
    /\ Len(connectOps) = 1
    /\ connectOps[1].state = "pending"
    /\ Len(sendOps) = 1
    /\ ~sendOps[1].authed
    /\ sendOps[1].state = "rejected"
    /\ sendOps[1].reason = "RCON client not authenticated"
    /\ sendOps[1].transport = 1
    /\ sendOps[1].answered

\* The sockets once socket t has gone from connecting to open.
Opened(t) == [transports EXCEPT ![t].status = "open"]

\* C16: a 'connect' event fired while isAuthenticated is true changes nothing
\* but the status of its socket: no packet is written, both flags keep their
\* values and no promise is settled.  Fired while isAuthenticated is false, it
\* sets isAuthenticating and makes one write, of the AUTH packet carrying
\* rconPassword, to the session's socket, which puts exactly that one packet on
\* the wire when the socket is connecting or open.
C16_ConnectedEvent ==
    [][\A t \in DOMAIN transports :
          socketConnect(t)
              => IF isAuthenticated
                 THEN /\ transports' = Opened(t)
                      /\ isAuthenticated' = isAuthenticated
                      /\ isAuthenticating' = isAuthenticating
                      /\ connectOps' = connectOps
                      /\ sendOps' = sendOps
                      /\ disconnectOps' = disconnectOps
                 ELSE /\ isAuthenticating'
                      /\ ~isAuthenticated'
                      /\ transports'
                             = IF Opened(t)[client].status \in {"connecting", "open"}
                               THEN [Opened(t) EXCEPT ![client].wire =
                                        Append(@, createPacket(PACKET_TYPE_AUTH,
                                                               rconPassword))]
                               ELSE Opened(t)]_vars

\* The first socket has had its AUTH packet written and answered; the second
\* socket, the session's, was opened while authenticated: it is open and
\* nothing was ever written to it.
C16_Witness ==
    /\ isAuthenticated
    /\ client = 2
    /\ transports[1].answered = 1
    /\ transports[2].status = "open"
    /\ transports[2].wire = << >>
    /\ transports[2].answered = 0

\* The error numbers handleError has a branch for, and the others.
MappedErrnos == {ERRNO_REFUSED, ERRNO_UNREACHABLE, ERRNO_TIMEDOUT}

UnmappedErrnos == Errnos \ MappedErrnos

\* C17: a connect promise changes state only in a 'data' event fired while
\* isAuthenticating is true or in an 'error' event of a mapped class.  An
\* 'error' event of any other class with the 'close' (hasError true) that
\* follows it, and a 'close' without an error, leave every connect promise and
\* both flags as they were.
C17_ConnectSettledOnlyByDataOrMappedError ==
    [][/\ \A i \in DOMAIN connectOps :
              connectOps'[i].state # connectOps[i].state
                  => \E t \in DOMAIN transports :
                         \/ socketData(t) /\ isAuthenticating
                         \/ \E errno \in MappedErrnos : socketError(t, errno)
       /\ \A t \in DOMAIN transports :
              (socketClose(t) \/ \E errno \in UnmappedErrnos : socketError(t, errno))
                  => /\ connectOps' = connectOps
                     /\ isAuthenticated' = isAuthenticated
                     /\ isAuthenticating' = isAuthenticating]_vars

\* The second connect is pending although its socket has had an error and is
\* closed: the close with an error has rejected a pending send, the first
\* socket is still open, and the error, being of no mapped class, has left the
\* connect promise alone.
C17_Witness ==
    /\ Len(connectOps) = 2
    /\ connectReject = 2
    /\ connectOps[2].state = "pending"
    /\ transports[1].status = "open"
    /\ transports[2].status = "closed"
    /\ \E i \in DOMAIN sendOps :
           /\ sendOps[i].authed
           /\ sendOps[i].state = "rejected"
           /\ sendOps[i].reason = "Unable to connect to remote host"

\* C18: isAuthenticated and isAuthenticating are never both true, in any
\* reachable state of the session.
C18_NotBothFlags == ~(isAuthenticated /\ isAuthenticating)

\* The session authenticated again after connect, disconnect and a second
\* connect, with isAuthenticating back to false.
C18_Witness ==
    /\ isAuthenticated
    /\ ~isAuthenticating
    /\ Len(connectOps) = 2
    /\ Len(disconnectOps) = 1
    /\ connectOps[1].state = "fulfilled"
    /\ connectOps[2].state = "fulfilled"

\* C19: after the latest connect() has been rejected for a mismatched id, the
\* session is not authenticated for as long as connect() is not called again.
C19_UnauthenticatedAfterFailure ==
    \A i \in DOMAIN connectOps :
        (/\ i = Len(connectOps)
         /\ connectOps[i].state = "rejected"
         /\ connectOps[i].reason = "RCON authentication failed")
            => ~isAuthenticated

\* C20: every fulfilled connect promise was fulfilled by a 'data' event of the
\* socket that its own connect() call opened.
C20_FulfilledByOwnTransport ==
    \A i \in DOMAIN connectOps :
        connectOps[i].state = "fulfilled"
            => connectOps[i].by = connectOps[i].transport

====
